---------------------------- MODULE Spec2Model ----------------------------
(***************************************************************************)
(* Model of the VTEX export scripts of this repository:                    *)
(*   src/src/lista_sellers.py  (VTEXSellersExporter and main)              *)
(*   src/src/pedidos_itens.py  (module start-up, coletar_itens and main)   *)
(* One run executes one of the two scripts.  The HTTP transport is the     *)
(* environment: every requests.get draws its outcome from a bounded set of *)
(* responses.  The destination file is assumed writable.                   *)
(***************************************************************************)
EXTENDS Integers, Sequences, FiniteSets, TLC

(* ------------------------------ bounds -------------------------------- *)
\* number of distinct non-empty identifier strings the server can send
NumIds == 2
\* largest number of entries in one list page
MaxPageLen == 2
\* last order-list page number the model lets pedidos_itens.py request
MaxPages == 3

(* --------------------------- JSON values ------------------------------ *)
\* A JSON scalar or nested value held under a key of an entity.
\*   k = "none": null / None;  k = "str": the string v;
\*   k = "list": a nested list holding the one string v.
None == [k |-> "none", v |-> ""]

Str(s) == [k |-> "str", v |-> s]

ListOf(s) == [k |-> "list", v |-> s]

\* Python truthiness of a value: None and "" are falsy, a non-empty list is truthy.
Truthy(x) == \/ x.k = "list"
             \/ x.k = "str" /\ x.v # ""

\* Python's `a or b`: a when a is truthy, else b.
Or(a, b) == IF Truthy(a) THEN a ELSE b

\* Whether a value can be a member of a Python set (a list is unhashable).
Hashable(x) == x.k # "list"

IdPool == <<"s1", "s2", "s3", "s4", "s5">>

\* the non-empty identifier strings
Ids == {IdPool[i] : i \in 1..NumIds}

(* ----------------------------- entities -------------------------------- *)
\* One element of a JSON list.  dict = TRUE: a JSON object, kv its
\* key/value pairs in insertion order (keys distinct); dict = FALSE: any
\* other JSON value (a string, a number).
Pair(key, val) == [key |-> key, val |-> val]

Dict(kv) == [dict |-> TRUE, kv |-> kv]

NotADict == [dict |-> FALSE, kv |-> <<>>]

Keys(d) == {d.kv[i].key : i \in 1..Len(d.kv)}

\* dict.get(key): the value under key, None when the key is absent.
Get(d, key) ==
  IF key \in Keys(d)
  THEN LET i == CHOOSE j \in 1..Len(d.kv) : d.kv[j].key = key IN d.kv[i].val
  ELSE None

\* bool(d) of a dict: a dict with no key is falsy.
TruthyDict(d) == Len(d.kv) > 0

SeqsUpTo(S, n) == UNION {[1..m -> S] : m \in 0..n}

(* ---------------- lista_sellers.py: get_all_sellers -------------------- *)
\* seller.get('SellerId') or seller.get('id') or seller.get('sellerId')
ResolvedId(seller) ==
  Or(Or(Get(seller, "SellerId"), Get(seller, "id")), Get(seller, "sellerId"))

\* The body of `for seller in sellers` applied to the sellers from index i on.
\* acc = [all, seen, new, crashed]; crashed: `seller_id not in seen_ids`
\* raised TypeError (unhashable identifier), which nothing catches.
RECURSIVE ScanSellers(_, _, _)
ScanSellers(sellers, i, acc) ==
  IF i > Len(sellers) \/ acc.crashed THEN acc
  ELSE LET seller == sellers[i]
           sid == ResolvedId(seller)
       IN IF ~seller.dict \/ ~Truthy(sid)
          THEN ScanSellers(sellers, i + 1, acc)
          ELSE IF ~Hashable(sid)
          THEN [acc EXCEPT !.crashed = TRUE]
          ELSE IF sid \in acc.seen
          THEN ScanSellers(sellers, i + 1, acc)
          ELSE ScanSellers(sellers, i + 1,
                 [all |-> Append(acc.all, seller),
                  seen |-> acc.seen \cup {sid},
                  new |-> acc.new + 1,
                  crashed |-> FALSE])


(* ------------------------- server responses --------------------------- *)
\* The seller objects the list endpoint can send: the catalog API's casing
\* for every identifier, and for the first identifier an entity carrying a
\* PascalCase key, its camelCase target and a nested value, one with an
\* empty 'id' beside its 'SellerId', and one whose identifier is a list;
\* an entity without identifier; a list element that is no JSON object.
SellerPool ==
  {Dict(<<Pair("SellerId", Str(s))>>) : s \in Ids}
  \cup
  {Dict(<<Pair("id", Str(IdPool[1])), Pair("Name", Str("N")), Pair("name", Str("n")),
          Pair("availableSalesChannels", ListOf("1"))>>),
   Dict(<<Pair("SellerId", Str(IdPool[1])), Pair("id", Str(""))>>),
   Dict(<<Pair("sellerId", ListOf(IdPool[1]))>>),
   Dict(<<Pair("id", Str("")), Pair("name", Str("n"))>>),
   NotADict}

\* paging.total of a response: None (JSON null), or a number; an absent
\* 'paging' or 'total' reads as 0 (the .get defaults of lines 59 and 62).
NoTotal == [k |-> "none", n |-> 0]

Total(n) == [k |-> "int", n |-> n]

Totals == {NoTotal, Total(0), Total(1), Total(NumIds)}

\* Python truthiness of total_sellers: None and 0 are falsy.
TruthyTotal(t) == t.k = "int" /\ t.n # 0

\* What one GET of the seller list can produce.
\*   "error": RequestException (transport failure, timeout, HTTP error status
\*            raised by raise_for_status);
\*   "dict":  a JSON object with 'items' and 'paging' (items absent = empty);
\*   "list":  a bare JSON list;  "other": any other JSON value.
ListResponses ==
  {[kind |-> "error", items |-> <<>>, total |-> NoTotal],
   [kind |-> "other", items |-> <<>>, total |-> NoTotal]}
  \cup
  {[kind |-> "dict", items |-> it, total |-> t] :
      it \in SeqsUpTo(SellerPool, MaxPageLen), t \in Totals}
  \cup
  {[kind |-> "list", items |-> it, total |-> NoTotal] :
      it \in SeqsUpTo(SellerPool, MaxPageLen)}

\* What one GET of a seller's details can produce: a RequestException, the
\* registered seller, or an empty JSON object.
DetailOf(sid) == Dict(<<Pair("id", sid), Pair("email", Str("e"))>>)

DetailResponses(sid) ==
  {[kind |-> "error", data |-> Dict(<<>>)],
   [kind |-> "ok", data |-> DetailOf(sid)],
   [kind |-> "ok", data |-> Dict(<<>>)]}

(* ----------------------------- environment ---------------------------- *)
\* os.getenv of a variable: Unset when absent, else its (maybe empty) text.
Unset == "<unset>"

EnvValues == {Unset, "", "x"}

\* Python truthiness of os.getenv(name): None and "" are falsy.
TruthyEnv(x) == x # Unset /\ x # ""

(* -------------------------------- state ------------------------------- *)
VARIABLES
  script,            \* which script runs: "lista_sellers" or "pedidos_itens"
  env,               \* [account, key, token]: the three environment variables
  pc,                \* position of the run
  requests,          \* number of requests.get calls issued so far
  file,              \* the output CSV
  include_details,   \* export_sellers' parameter
  all_sellers,       \* get_all_sellers: the accumulated list
  seen_ids,          \* get_all_sellers: identifiers accepted so far
  total_sellers,     \* get_all_sellers: declared total, None until read
  new_sellers_count, \* get_all_sellers: new sellers of the last response
  lastResp,          \* kind of the last seller-list response ("" before any)
  firstTotal,        \* paging.total as the first JSON object read it
  sellers,           \* export_sellers: the list being exported
  detailed_sellers,  \* export_sellers: the detail loop's result so far
  ACCOUNT,           \* pedidos_itens: the account name in use
  pagina,            \* coletar_itens: page cursor
  pages,             \* coletar_itens: the list pages requested, in order
  registros,         \* coletar_itens: accumulated rows
  pedidos,           \* coletar_itens: the order summaries of the current page
  resumo,            \* coletar_itens: index of the order being resolved
  attempt,           \* coletar_itens: detail attempts made for that order
  lastList,          \* outcome of the last order-list request
  unresolved         \* order ids whose three detail attempts all failed

sellerVars == <<include_details, all_sellers, seen_ids, total_sellers,
                new_sellers_count, lastResp, firstTotal, sellers, detailed_sellers>>

pedidosVars == <<ACCOUNT, pagina, pages, registros, pedidos, resumo, attempt,
                 lastList, unresolved>>

vars == <<script, env, pc, requests, file, sellerVars, pedidosVars>>

NoFile == [exists |-> FALSE, header |-> <<>>, rows |-> <<>>]

(* ------------------- lista_sellers.py: export_to_csv ------------------- *)
\* the declared columns
fieldnames ==
  <<"id", "name", "email", "description", "exchangeReturnPolicy",
    "deliveryPolicy", "useHybridPaymentOptions", "userName", "password",
    "SonarConfiguration", "taxCode", "isActive", "fulfillmentEndpoint",
    "catalogSystemEndpoint", "allowHybridPayments", "sellerType",
    "availableSalesChannels", "trustPolicy", "channel", "sellerId",
    "CSCIdentification">>

Range(f) == {f[i] : i \in DOMAIN f}

\* field_mapping.get(key, key)
field_mapping(key) ==
  CASE key = "SellerId" -> "id"
    [] key = "Name" -> "name"
    [] key = "Email" -> "email"
    [] key = "Description" -> "description"
    [] key = "ExchangeReturnPolicy" -> "exchangeReturnPolicy"
    [] key = "DeliveryPolicy" -> "deliveryPolicy"
    [] key = "UseHybridPaymentOptions" -> "useHybridPaymentOptions"
    [] key = "UserName" -> "userName"
    [] key = "Password" -> "password"
    [] key = "TaxCode" -> "taxCode"
    [] key = "IsActive" -> "isActive"
    [] key = "FulfillmentEndpoint" -> "fulfillmentEndpoint"
    [] key = "CatalogSystemEndpoint" -> "catalogSystemEndpoint"
    [] OTHER -> key

\* json.dumps(value, ensure_ascii=False) of the nested list [v]
JsonDumps(x) == Str("[\"" \o x.v \o "\"]")

\* the value export_to_csv stores in the row for one key of the seller
RowValue(x) == IF x.k = "list" THEN JsonDumps(x) ELSE x

\* row[key] = val on a dict held as a function
Put(row, key, val) ==
  [c \in DOMAIN row \cup {key} |-> IF c = key THEN val ELSE row[c]]

\* `for key, value in seller.items()`: the pairs from index i on, in the
\* seller's own key order; a later pair overwrites an earlier one that maps
\* to the same target key.
RECURSIVE FillRow(_, _, _)
FillRow(seller, i, row) ==
  IF i > Len(seller.kv) THEN row
  ELSE FillRow(seller, i + 1,
               Put(row, field_mapping(seller.kv[i].key), RowValue(seller.kv[i].val)))

\* the row of one seller, back-fill of 'id' included
NormalizedRow(seller) ==
  LET row == FillRow(seller, 1, [c \in {} |-> None])
  IN IF "id" \notin DOMAIN row /\ "SellerId" \in Keys(seller)
     THEN Put(row, "id", Get(seller, "SellerId"))
     ELSE row

\* the text csv.writer puts in a field: None becomes the empty field
CsvText(x) == IF x.k = "none" THEN "" ELSE x.v

\* DictWriter.writerow with extrasaction='ignore': one text per column of
\* the header, the empty text for a column the row lacks
WriteRow(row, header) ==
  [c \in Range(header) |-> IF c \in DOMAIN row THEN CsvText(row[c]) ELSE ""]

\* the sellers that are JSON objects, in order
RECURSIVE OnlyDicts(_)
OnlyDicts(list) ==
  IF list = <<>> THEN <<>>
  ELSE IF Head(list).dict THEN <<Head(list)>> \o OnlyDicts(Tail(list))
  ELSE OnlyDicts(Tail(list))

\* the keys of the sellers that no declared column names
ExtraKeys(list) ==
  UNION {Keys(list[i]) : i \in {j \in 1..Len(list) : list[j].dict}} \ Range(fieldnames)

\* the orders in which `for key in all_keys` can visit a set of strings
Orders(S) ==
  {o \in [1..Cardinality(S) -> S] : \A i, j \in DOMAIN o : i # j => o[i] # o[j]}

\* export_to_csv(list): the file it leaves, given the order in which the
\* extra keys were visited; no file at all for an empty list.
ExportedFile(list, extras) ==
  IF list = <<>> THEN NoFile
  ELSE LET header == fieldnames \o extras
           dicts == OnlyDicts(list)
       IN [exists |-> TRUE,
           header |-> header,
           rows |-> [i \in 1..Len(dicts) |-> WriteRow(NormalizedRow(dicts[i]), header)]]

(* ------------------------------- Init --------------------------------- *)
\* total_sellers / firstTotal before any JSON object was read
Unread == [k |-> "unread", n |-> 0]

NoList == [kind |-> "", status |-> 0, n |-> 0]

Init ==
  /\ script \in {"lista_sellers", "pedidos_itens"}
  /\ env \in [account : EnvValues, key : EnvValues, token : EnvValues]
  /\ pc = "start"
  /\ requests = 0
  /\ file = NoFile
  /\ include_details \in BOOLEAN
  /\ (script = "pedidos_itens" => include_details = FALSE)
  /\ all_sellers = <<>>
  /\ seen_ids = {}
  /\ total_sellers = NoTotal
  /\ new_sellers_count = 0
  /\ lastResp = ""
  /\ firstTotal = Unread
  /\ sellers = <<>>
  /\ detailed_sellers = <<>>
  /\ ACCOUNT = ""
  /\ pagina = 1
  /\ pages = <<>>
  /\ registros = <<>>
  /\ pedidos = <<>>
  /\ resumo = 1
  /\ attempt = 0
  /\ lastList = NoList
  /\ unresolved = {}

(* --------------------- lista_sellers.py: the run ----------------------- *)
\* (mutant) the check forgets the account name
AllCredentialsButAccount(e) == TruthyEnv(e.key) /\ TruthyEnv(e.token)

\* all([account_name, app_key, app_token])
AllCredentials(e) == TruthyEnv(e.account) /\ TruthyEnv(e.key) /\ TruthyEnv(e.token)

\* main(): return after the message when a credential is missing, else
\* build the exporter and enter export_sellers / get_all_sellers.
SellersMain ==
  /\ script = "lista_sellers"
  /\ pc = "start"
  /\ pc' = IF AllCredentials(env) THEN "fetch" ELSE "aborted"
  /\ UNCHANGED <<script, env, requests, file, sellerVars, pedidosVars>>

\* (mutant) the exit test without its "no new seller" half
ConcludedByTotalOnly(total, count, new) == TruthyTotal(total) /\ count >= total.n

\* the loop's exit test of line 81
Concluded(total, count, new) ==
  \/ TruthyTotal(total) /\ count >= total.n
  \/ new = 0

\* where export_sellers goes once get_all_sellers returned list
AfterFetch(list) == IF include_details /\ list # <<>> THEN "details" ELSE "export"

\* One iteration of get_all_sellers' `while True`: the GET, and what the
\* loop does with its outcome.  When the loop ends, get_all_sellers returns
\* its list to export_sellers and its locals are gone.
SellersRequest ==
  /\ script = "lista_sellers"
  /\ pc = "fetch"
  /\ requests' = requests + 1
  /\ \E resp \in ListResponses :
     /\ lastResp' = resp.kind
     /\ LET total == IF resp.kind = "dict" /\ total_sellers.k = "none"
                     THEN resp.total ELSE total_sellers
            scan == IF resp.kind = "dict"
                    THEN ScanSellers(resp.items, 1,
                           [all |-> all_sellers, seen |-> seen_ids, new |-> 0, crashed |-> FALSE])
                    ELSE [all |-> IF resp.kind = "list" THEN resp.items
                                  ELSE IF resp.kind = "other" THEN <<>>
                                  ELSE all_sellers,
                          seen |-> seen_ids, new |-> new_sellers_count, crashed |-> FALSE]
            stop == resp.kind # "dict" \/ Concluded(total, Len(scan.all), scan.new)
        IN IF scan.crashed
           THEN /\ pc' = "crashed"
                /\ UNCHANGED <<all_sellers, seen_ids, total_sellers, new_sellers_count,
                               firstTotal, sellers>>
           ELSE IF stop
           THEN /\ pc' = AfterFetch(scan.all)
                /\ sellers' = scan.all
                /\ all_sellers' = <<>>
                /\ seen_ids' = {}
                /\ total_sellers' = NoTotal
                /\ new_sellers_count' = 0
                /\ firstTotal' = Unread
           ELSE /\ pc' = "fetch"
                /\ all_sellers' = scan.all
                /\ seen_ids' = scan.seen
                /\ total_sellers' = total
                /\ new_sellers_count' = scan.new
                /\ firstTotal' = IF firstTotal = Unread THEN resp.total ELSE firstTotal
                /\ UNCHANGED sellers
  /\ UNCHANGED <<script, env, file, include_details, detailed_sellers, pedidosVars>>

\* seller.get('id') or seller.get('sellerId') of the detail loop
DetailId(seller) == Or(Get(seller, "id"), Get(seller, "sellerId"))

\* what the detail loop appends for a seller, given get_seller_details' result
Detailed(seller, details) == IF TruthyDict(details) THEN details ELSE seller

\* get_seller_details: the JSON of a good response, {} on a RequestException
SellerDetails(resp) == IF resp.kind = "ok" THEN resp.data ELSE Dict(<<>>)

\* where the detail loop stands after appending to detailed_sellers
AfterDetail(done) ==
  /\ detailed_sellers' = done
  /\ sellers' = IF Len(done) = Len(sellers) THEN done ELSE sellers
  /\ pc' = IF Len(done) = Len(sellers) THEN "export" ELSE "details"

\* One iteration of export_sellers' detail loop for a seller that has an
\* identifier: one GET of its details.
DetailRequest ==
  /\ script = "lista_sellers"
  /\ pc = "details"
  /\ LET seller == sellers[Len(detailed_sellers) + 1]
     IN /\ seller.dict
        /\ Truthy(DetailId(seller))
        /\ requests' = requests + 1
        /\ \E resp \in DetailResponses(DetailId(seller)) :
              AfterDetail(Append(detailed_sellers, Detailed(seller, SellerDetails(resp))))
  /\ UNCHANGED <<script, env, file, include_details, all_sellers, seen_ids,
                 total_sellers, new_sellers_count, lastResp, firstTotal, pedidosVars>>

\* One iteration of the detail loop without request: the seller has no 'id'
\* or 'sellerId' and is kept as it is; a list element that is no JSON object
\* has no .get and ends the run with AttributeError.
DetailSkip ==
  /\ script = "lista_sellers"
  /\ pc = "details"
  /\ LET seller == sellers[Len(detailed_sellers) + 1]
     IN IF ~seller.dict
        THEN pc' = "crashed" /\ UNCHANGED <<sellers, detailed_sellers>>
        ELSE /\ ~Truthy(DetailId(seller))
             /\ AfterDetail(Append(detailed_sellers, seller))
  /\ UNCHANGED <<script, env, requests, file, include_details, all_sellers, seen_ids,
                 total_sellers, new_sellers_count, lastResp, firstTotal, pedidosVars>>

\* export_to_csv(sellers) and the end of export_sellers
ExportToCsv ==
  /\ script = "lista_sellers"
  /\ pc = "export"
  /\ \E extras \in Orders(ExtraKeys(sellers)) : file' = ExportedFile(sellers, extras)
  /\ pc' = "done"
  /\ UNCHANGED <<script, env, requests, sellerVars, pedidosVars>>

(* ------------------- pedidos_itens.py: the server --------------------- *)
\* detail attempts per order: range(3)
MaxAttempts == 3

\* hours between UTC and the timezone of converter_brasil
BrazilOffset == -3

\* the order summaries a list page can hold: with an orderId, or without
OrderPool == {Dict(<<Pair("orderId", Str("o1"))>>), Dict(<<>>)}

\* What one GET of an order-list page can produce.
\*   "error":  requests.get raised (connection error, timeout);
\*   "status": a response whose status is not 200;
\*   "ok":     status 200 with the JSON's 'list' (absent or null = empty).
PageResponses ==
  {[kind |-> "error", status |-> 0, list |-> <<>>],
   [kind |-> "status", status |-> 500, list |-> <<>>]}
  \cup
  {[kind |-> "ok", status |-> 200, list |-> l] : l \in SeqsUpTo(OrderPool, MaxPageLen)}

\* An instant, counted in hours; None for an absent creationDate.
NoDate == [k |-> "none", v |-> 0]

Hour(t) == [k |-> "hour", v |-> t]

\* the one item an order of the model carries
Item == Dict(<<Pair("name", Str("i1")), Pair("price", Str("10"))>>)

\* the order JSON of the detail endpoint; an empty JSON object is falsy
EmptyPedido == [empty |-> TRUE, creationDate |-> NoDate, items |-> <<>>]

PedidoPool ==
  {EmptyPedido,
   [empty |-> FALSE, creationDate |-> NoDate, items |-> <<>>],
   [empty |-> FALSE, creationDate |-> Hour(2), items |-> <<Item>>]}

\* What one detail attempt can produce: an exception, a status other than
\* 200, or status 200 with the order's JSON.
AttemptResponses ==
  {[kind |-> "error", pedido |-> EmptyPedido],
   [kind |-> "status", pedido |-> EmptyPedido]}
  \cup
  {[kind |-> "ok", pedido |-> p] : p \in PedidoPool}

(* --------------------- pedidos_itens.py: the run ----------------------- *)
\* the test of line 14
MissingKeys(e) == ~TruthyEnv(e.key) \/ ~TruthyEnv(e.token)

\* os.getenv("VTEX_ACCOUNT_NAME", "senffnet")
AccountOf(e) == IF e.account = Unset THEN "senffnet" ELSE e.account

\* Module start-up: read the configuration, raise RuntimeError when the
\* key or the token is missing; else main() enters coletar_itens.
PedidosStart ==
  /\ script = "pedidos_itens"
  /\ pc = "start"
  /\ ACCOUNT' = AccountOf(env)
  /\ pc' = IF MissingKeys(env) THEN "aborted" ELSE "list"
  /\ UNCHANGED <<script, env, requests, file, sellerVars, pagina, pages,
                 registros, pedidos, resumo, attempt, lastList, unresolved>>

\* converter_brasil: None for a missing date, else the same instant on the
\* clock of the UTC-3 timezone
converter_brasil(d) == IF d.k = "none" THEN NoDate ELSE Hour(d.v + BrazilOffset)

colunas_finais ==
  <<"creationDate", "orderId", "additionalInfo_categories", "name", "price",
    "listPrice", "quantity", "productId", "seller", "data_extracao">>

\* the record appended for one item of an order (Item carries no
\* additionalInfo; data_extracao is the clock's reading)
Registro(order_id, pedido, item) ==
  [c \in Range(colunas_finais) |->
     CASE c = "creationDate" -> converter_brasil(pedido.creationDate)
       [] c = "orderId" -> order_id
       [] c = "additionalInfo_categories" -> None
       [] c = "data_extracao" -> Str("now")
       [] OTHER -> Get(item, c)]

\* `for item in pedido.get("items", [])`
Registros(order_id, pedido) ==
  [i \in 1..Len(pedido.items) |-> Registro(order_id, pedido, pedido.items[i])]

\* (mutant) the pull goes on after an empty page
BreaksOnStatusOnly(resp) == resp.status # 200

\* the tests of lines 67 and 72 that end the pull
Breaks(resp) == resp.status # 200 \/ resp.list = <<>>

\* the cursor after a page's orders are done
NextPage(p) == p + 1

\* One iteration of coletar_itens' `while True` up to the order loop: the
\* GET of page `pagina` and the tests on its outcome.  An exception of
\* requests.get is caught nowhere and ends the run.
PageRequest ==
  /\ script = "pedidos_itens"
  /\ pc = "list"
  /\ pagina <= MaxPages
  /\ requests' = requests + 1
  /\ pages' = Append(pages, pagina)
  /\ \E resp \in PageResponses :
     /\ lastList' = [kind |-> resp.kind, status |-> resp.status, n |-> Len(resp.list)]
     /\ IF resp.kind = "error"
        THEN pc' = "crashed" /\ UNCHANGED <<pedidos, resumo, attempt, pagina>>
        ELSE IF Breaks(resp)
        THEN pc' = "write" /\ UNCHANGED <<pedidos, resumo, attempt, pagina>>
        ELSE /\ pedidos' = resp.list
             /\ resumo' = 1
             /\ attempt' = 0
             /\ pc' = IF resp.list = <<>> THEN "list" ELSE "orders"
             /\ pagina' = IF resp.list = <<>> THEN NextPage(pagina) ELSE pagina
  /\ UNCHANGED <<script, env, file, sellerVars, ACCOUNT, registros, unresolved>>

\* the order loop moves on from order `resumo`; after the last order of the
\* page the cursor advances and the next page is due
NextOrder ==
  /\ resumo' = resumo + 1
  /\ attempt' = 0
  /\ pc' = IF resumo = Len(pedidos) THEN "list" ELSE "orders"
  /\ pagina' = IF resumo = Len(pedidos) THEN NextPage(pagina) ELSE pagina

\* a summary without orderId is passed over, with no request
OrderSkip ==
  /\ script = "pedidos_itens"
  /\ pc = "orders"
  /\ ~Truthy(Get(pedidos[resumo], "orderId"))
  /\ NextOrder
  /\ UNCHANGED <<script, env, requests, file, sellerVars, ACCOUNT, pages,
                 registros, pedidos, lastList, unresolved>>

\* One detail attempt for order `resumo`.  Status 200 ends the attempts:
\* a non-empty order adds one record per item, an empty one adds nothing.
\* Any other outcome counts as a failed attempt; after the third the order
\* is passed over with no record.
DetailAttempt ==
  /\ script = "pedidos_itens"
  /\ pc = "orders"
  /\ LET order_id == Get(pedidos[resumo], "orderId")
     IN /\ Truthy(order_id)
        /\ requests' = requests + 1
        /\ \E resp \in AttemptResponses :
           IF resp.kind = "ok"
           THEN /\ registros' = IF resp.pedido.empty THEN registros
                                ELSE registros \o Registros(order_id, resp.pedido)
                /\ unresolved' = unresolved
                /\ NextOrder
           ELSE IF attempt + 1 < MaxAttempts
           THEN /\ attempt' = attempt + 1
                /\ UNCHANGED <<registros, unresolved, resumo, pc, pagina>>
           ELSE /\ unresolved' = unresolved \cup {order_id}
                /\ registros' = registros
                /\ NextOrder
  /\ UNCHANGED <<script, env, file, sellerVars, ACCOUNT, pages, pedidos, lastList>>

\* main() after coletar_itens returned: the DataFrame with the declared
\* columns, written with its header even when it has no row
WriteCsv ==
  /\ script = "pedidos_itens"
  /\ pc = "write"
  /\ file' = [exists |-> TRUE, header |-> colunas_finais, rows |-> registros]
  /\ pc' = "done"
  /\ UNCHANGED <<script, env, requests, sellerVars, pedidosVars>>

(* ------------------------------- Spec --------------------------------- *)
Next ==
  \/ SellersMain
  \/ SellersRequest
  \/ DetailRequest
  \/ DetailSkip
  \/ ExportToCsv
  \/ PedidosStart
  \/ PageRequest
  \/ OrderSkip
  \/ DetailAttempt
  \/ WriteCsv

Spec == Init /\ [][Next]_vars

(* ------------------------------ claims -------------------------------- *)
Terminal == pc \in {"done", "crashed", "aborted"}

\* get_all_sellers has just returned `sellers` to export_sellers
Returned ==
  /\ script = "lista_sellers"
  /\ pc \in {"details", "export"}
  /\ detailed_sellers = <<>>

\* C1: the list get_all_sellers returns holds no two entities with the same
\* resolved identifier.
C1_NoDuplicateIds ==
  Returned =>
    \A i, j \in 1..Len(sellers) :
      (i < j /\ sellers[i].dict /\ sellers[j].dict /\ Truthy(ResolvedId(sellers[i])))
        => ResolvedId(sellers[i]) # ResolvedId(sellers[j])

\* C2: no entity without a recognized identifier is in the list
\* get_all_sellers returns.
C2_NoUnidentified ==
  Returned =>
    \A i \in 1..Len(sellers) : sellers[i].dict => Truthy(ResolvedId(sellers[i]))

\* C3: once a list request failed at transport level after entities were
\* accumulated, the run ends with those entities written to the CSV, in
\* lista_sellers.py and in pedidos_itens.py.
C3_PartialWritten ==
  /\ (script = "lista_sellers" /\ lastResp = "error" /\ sellers # <<>> /\ Terminal)
       => (file.exists /\ Len(file.rows) = Len(sellers))
  /\ (script = "pedidos_itens" /\ lastList.kind = "error" /\ registros # <<>> /\ Terminal)
       => (file.exists /\ file.rows = registros)

\* C4: an entity whose detail fetch failed on every attempt is kept as its
\* summary: the detail loop of export_sellers appends the seller itself or a
\* non-empty detail, and every order whose three attempts failed appears in
\* the records coletar_itens returns.
C4_SummaryKept ==
  /\ (script = "lista_sellers" /\ pc = "details")
       => \A i \in 1..Len(detailed_sellers) :
            detailed_sellers[i] = sellers[i] \/ TruthyDict(detailed_sellers[i])
  /\ (script = "pedidos_itens" /\ pc \in {"write", "done"})
       => \A o \in unresolved :
            \E i \in 1..Len(registros) : registros[i]["orderId"] = o

\* the sellers export_to_csv wrote a row for, in order
Written == OnlyDicts(sellers)

Exported == script = "lista_sellers" /\ pc = "done" /\ file.exists

\* C5: when a seller carries a key of the rename table and that key's
\* target, the column holds the value of the renamed key.
C5_RenamedKeyWins ==
  Exported =>
    \A i \in 1..Len(Written) : \A key \in Keys(Written[i]) :
      (field_mapping(key) # key /\ field_mapping(key) \in Keys(Written[i]))
        => file.rows[i][field_mapping(key)] = CsvText(RowValue(Get(Written[i], key)))

\* C6: a seller with a non-empty 'SellerId' or 'id' gets a row whose 'id'
\* field is not empty.
C6_IdNonEmpty ==
  Exported =>
    \A i \in 1..Len(Written) :
      (Truthy(Get(Written[i], "SellerId")) \/ Truthy(Get(Written[i], "id")))
        => file.rows[i]["id"] # ""

\* C7: a run that ends with zero rows leaves a CSV holding exactly the
\* declared header, in lista_sellers.py and in pedidos_itens.py.
C7_HeaderOnlyFile ==
  /\ (script = "lista_sellers" /\ pc = "done" /\ sellers = <<>>)
       => (file.exists /\ file.header = fieldnames /\ file.rows = <<>>)
  /\ (script = "pedidos_itens" /\ pc = "done" /\ registros = <<>>)
       => (file.exists /\ file.header = colunas_finais /\ file.rows = <<>>)

NoRequestAtAll == requests = 0 /\ pc \in {"start", "aborted"}

\* C8 as claimed: with any of the three configuration values absent, neither
\* script issues a request.
C8_AnyAbsentAborts ==
  (env.account = Unset \/ env.key = Unset \/ env.token = Unset) => requests = 0

\* C8 as amended: lista_sellers.py aborts without any request when any of the
\* three values is absent; pedidos_itens.py aborts without any request when
\* the key or the token is absent, and with the account name absent it runs
\* on with the account "senffnet".
C8_AbortBeforeNetwork ==
  /\ (script = "lista_sellers"
        /\ (env.account = Unset \/ env.key = Unset \/ env.token = Unset))
       => NoRequestAtAll
  /\ (script = "pedidos_itens" /\ (env.key = Unset \/ env.token = Unset))
       => NoRequestAtAll
  /\ (script = "pedidos_itens" /\ pc # "start" /\ env.account = Unset)
       => ACCOUNT = "senffnet"

C8_Witness ==
  /\ script = "lista_sellers"
  /\ env.account = Unset /\ env.key = "x" /\ env.token = "x"
  /\ pc = "aborted"

\* C9: get_all_sellers issues a further list request only after a JSON
\* object that brought at least one new seller and left the count below the
\* total the first response declared (when that total is neither 0 nor
\* missing); it never issues more list requests than there are distinct
\* identifiers, plus one.
C9_BoundedPull ==
  /\ [][(script = "lista_sellers" /\ pc = "fetch" /\ requests >= 1
           /\ requests' = requests + 1)
          => /\ lastResp = "dict"
             /\ new_sellers_count >= 1
             /\ (firstTotal.k = "int" /\ firstTotal.n # 0)
                  => Len(all_sellers) < firstTotal.n]_vars
  /\ [](script = "lista_sellers" /\ pc = "fetch" => requests <= Cardinality(Ids))

\* the pull ran to the bound: one request per identifier and a last one
C9_Witness ==
  /\ script = "lista_sellers"
  /\ pc = "export"
  /\ lastResp = "dict"
  /\ requests = Cardinality(Ids) + 1
  /\ Len(sellers) = Cardinality(Ids)

\* the last order-list page ended the pull: its status was not 200, its
\* list was empty, or the request raised
Stopped == lastList.kind # "" /\ ~(lastList.status = 200 /\ lastList.n > 0)

\* C10: coletar_itens requests the pages 1, 2, 3, ... in order; it requests
\* the next page only after a page with status 200 and a non-empty list whose
\* orders were all gone through; after a page that ended the pull it issues
\* no request at all.
C10_PagesInOrder ==
  /\ [](\A i \in 1..Len(pages) : pages[i] = i)
  /\ [][(script = "pedidos_itens" /\ Len(pages) >= 1 /\ Len(pages') = Len(pages) + 1)
          => /\ lastList.status = 200
             /\ lastList.n > 0
             /\ Len(pedidos) = lastList.n
             /\ resumo = Len(pedidos) + 1]_vars
  /\ [][(script = "pedidos_itens" /\ Stopped) => requests' = requests]_vars

\* two pages with orders were gone through and the empty third ended the pull
C10_Witness ==
  /\ script = "pedidos_itens"
  /\ pc = "done"
  /\ Len(pages) >= 3
  /\ lastList.status = 200 /\ lastList.n = 0
  /\ requests > Len(pages)

=============================================================================
